---- MODULE Spec2Model ----
(***************************************************************************)
(* DocumentModal: the document viewer of the US Code network explorer.    *)
(* The model covers the document load effect, the match-position effect,  *)
(* highlightText and the parts of the render that decide what is shown.   *)
(* Strings are sequences of one-character strings; offsets are 0-based as *)
(* in the source.  null and the empty string are both falsy in the source *)
(* and are both written <<>> here.                                        *)
(***************************************************************************)
EXTENDS Integers, Sequences, FiniteSets, TLC

VARIABLES docId, highlightTerm, secondaryHighlightTerm,
          document, documentText, loading, error, matchPositions,
          matchRefs, rendered,
          loads, started, loadEffectPending, matchEffectPending,
          pc, regex, lastIndex, positions

vars == <<docId, highlightTerm, secondaryHighlightTerm,
          document, documentText, loading, error, matchPositions,
          matchRefs, rendered,
          loads, started, loadEffectPending, matchEffectPending,
          pc, regex, lastIndex, positions>>

----------------------------------------------------------------------------
(* Bounds and input samples *)

MaxTextLen == 4
MaxScanLen == 4
MaxLoads == 3

Alphabet == {"o", "f", "F", " ", "("}
ScanAlphabet == {"o", "f", "F"}

RECURSIVE StringsUpTo(_, _)
StringsUpTo(A, n) ==
  IF n = 0 THEN {<<>>}
  ELSE LET S == StringsUpTo(A, n - 1)
       IN S \cup {Append(s, c) : s \in {t \in S : Len(t) = n - 1}, c \in A}

Texts == StringsUpTo(Alphabet, MaxTextLen)
ScanTexts == StringsUpTo(ScanAlphabet, MaxScanLen)

PhraseSamples ==
  { <<>>,
    <<"o","f","f">>,
    <<"o","o","f">>,
    <<" ","o","o","f">>,
    <<"(","o">>,
    <<"o","o">>,
    <<"o","f"," ","O","f","f"," ","o","o","f">> }

ScanPhrases == { <<>>, <<"o","o">>, <<"o","o","f">>, <<"o","f","f">>,
                 <<"f"," ","f","o","o">> }

----------------------------------------------------------------------------
(* Characters *)

LowerOf ==
    "A" :> "a" @@ "B" :> "b" @@ "C" :> "c" @@ "D" :> "d" @@ "E" :> "e" @@ "F" :> "f" @@
    "G" :> "g" @@ "H" :> "h" @@ "I" :> "i" @@ "J" :> "j" @@ "K" :> "k" @@ "L" :> "l" @@
    "M" :> "m" @@ "N" :> "n" @@ "O" :> "o" @@ "P" :> "p" @@ "Q" :> "q" @@ "R" :> "r" @@
    "S" :> "s" @@ "T" :> "t" @@ "U" :> "u" @@ "V" :> "v" @@ "W" :> "w" @@ "X" :> "x" @@
    "Y" :> "y" @@ "Z" :> "z"

UpperOf ==
    "a" :> "A" @@ "b" :> "B" @@ "c" :> "C" @@ "d" :> "D" @@ "e" :> "E" @@ "f" :> "F" @@
    "g" :> "G" @@ "h" :> "H" @@ "i" :> "I" @@ "j" :> "J" @@ "k" :> "K" @@ "l" :> "L" @@
    "m" :> "M" @@ "n" :> "N" @@ "o" :> "O" @@ "p" :> "P" @@ "q" :> "Q" @@ "r" :> "R" @@
    "s" :> "S" @@ "t" :> "T" @@ "u" :> "U" @@ "v" :> "V" @@ "w" :> "W" @@ "x" :> "X" @@
    "y" :> "Y" @@ "z" :> "Z"

toLowerCaseChar(c) == IF c \in DOMAIN LowerOf THEN LowerOf[c] ELSE c

toLowerCase(s) == [i \in 1..Len(s) |-> toLowerCaseChar(s[i])]

Canonicalize(c) == IF c \in DOMAIN UpperOf THEN UpperOf[c] ELSE c

WhiteSpace == {" ", "\t", "\n", "\r", "\f"}

MetaChars == {".", "*", "+", "?", "^", "$", "{", "}", "(", ")", "|", "[", "]", "\\"}

commonWords == {
    <<"t","h","e">>, <<"a","n","d">>, <<"o","r">>, <<"t","o">>,
    <<"f","r","o","m">>, <<"i","n">>, <<"o","n">>, <<"a","t">>, <<"b","y">>,
    <<"f","o","r">>, <<"w","i","t","h">>, <<"a","b","o","u","t">>,
    <<"a","s">>, <<"i","n","t","o">>, <<"t","h","r","o","u","g","h">>,
    <<"d","u","r","i","n","g">>, <<"b","e","f","o","r","e">>,
    <<"a","f","t","e","r">>, <<"a","b","o","v","e">>,
    <<"b","e","l","o","w">>, <<"b","e","t","w","e","e","n">>,
    <<"u","n","d","e","r">>, <<"s","i","n","c","e">>,
    <<"w","i","t","h","o","u","t">>, <<"w","i","t","h","i","n">>,
    <<"o","f">>, <<"o","f","f">>, <<"o","u","t">>, <<"o","v","e","r">>,
    <<"u","p">>, <<"d","o","w","n">>, <<"n","e","a","r">>,
    <<"a","l","o","n","g">>, <<"a","m","o","n","g">>,
    <<"a","c","r","o","s","s">>, <<"b","e","h","i","n","d">>,
    <<"b","e","y","o","n","d">>, <<"p","l","u","s">>,
    <<"e","x","c","e","p","t">>, <<"b","u","t">>, <<"p","e","r">>,
    <<"v","i","a">>, <<"u","p","o","n">>, <<"a","g","a","i","n","s","t">> }

MinWordLength == 3

----------------------------------------------------------------------------
(* Term expansion and escaping *)

(* mutant: the pattern is used as written *)
EscapeNothing(s) == s

RECURSIVE EscapeRegExp(_)
EscapeRegExp(s) ==
  IF s = <<>> THEN <<>>
  ELSE (IF Head(s) \in MetaChars THEN <<"\\", Head(s)>> ELSE <<Head(s)>>)
       \o EscapeRegExp(Tail(s))

RECURSIVE SplitFrom(_, _, _, _)
SplitFrom(s, i, cur, acc) ==
  IF i > Len(s) THEN Append(acc, cur)
  ELSE IF s[i] \in WhiteSpace
       THEN IF i > 1 /\ s[i - 1] \in WhiteSpace
            THEN SplitFrom(s, i + 1, cur, acc)
            ELSE SplitFrom(s, i + 1, <<>>, Append(acc, cur))
       ELSE SplitFrom(s, i + 1, Append(cur, s[i]), acc)

SplitWhitespace(s) == SplitFrom(s, 1, <<>>, <<>>)

(* mutant: words of exactly the minimum length are dropped *)
KeepWordLonger(word) ==
  Len(word) > MinWordLength /\ toLowerCase(word) \notin commonWords

KeepWord(word) ==
  Len(word) >= MinWordLength /\ toLowerCase(word) \notin commonWords

RECURSIVE SelectWords(_)
SelectWords(ws) ==
  IF ws = <<>> THEN <<>>
  ELSE (IF KeepWord(Head(ws)) THEN <<Head(ws)>> ELSE <<>>)
       \o SelectWords(Tail(ws))

MapEscape(ws) == [i \in 1..Len(ws) |-> EscapeRegExp(ws[i])]

primaryPatterns(term) ==
  IF term = <<>> THEN <<>>
  ELSE <<EscapeRegExp(term)>> \o MapEscape(SelectWords(SplitWhitespace(term)))

secondaryPatterns(term) ==
  IF term = <<>> THEN <<>>
  ELSE <<EscapeRegExp(term)>> \o MapEscape(SelectWords(SplitWhitespace(term)))

WordSet(term) ==
  IF term = <<>> THEN {}
  ELSE LET ws == SelectWords(SplitWhitespace(term))
       IN {toLowerCase(ws[i]) : i \in 1..Len(ws)}

patterns(term, secondaryTerm) ==
  (IF term = <<>> THEN <<>>
   ELSE <<EscapeRegExp(term)>> \o MapEscape(SelectWords(SplitWhitespace(term))))
  \o
  (IF secondaryTerm = <<>> THEN <<>>
   ELSE <<EscapeRegExp(secondaryTerm)>>
        \o MapEscape(SelectWords(SplitWhitespace(secondaryTerm))))

----------------------------------------------------------------------------
(* Regular expressions: `(${patterns.join('|')})` with flags gi *)

RECURSIVE Join(_)
Join(ps) ==
  IF ps = <<>> THEN <<>>
  ELSE IF Len(ps) = 1 THEN ps[1]
  ELSE ps[1] \o <<"|">> \o Join(Tail(ps))

RegExpSource(ps) == <<"(">> \o Join(ps) \o <<")">>

(* Parses the body of the outer group, from position i: cur is the       *)
(* alternative being read, acc the alternatives already closed.  A       *)
(* backslash makes the next character a literal; a bare "|" closes an    *)
(* alternative; a bare "(" opens a group that nothing closes, which is   *)
(* a SyntaxError; a bare ")" before the last position is unmatched.      *)
RECURSIVE ParseBody(_, _, _, _)
ParseBody(src, i, cur, acc) ==
  IF i >= Len(src) THEN [ok |-> TRUE, alts |-> Append(acc, cur)]
  ELSE IF src[i] = "\\"
       THEN IF i + 1 >= Len(src) THEN [ok |-> FALSE, alts |-> <<>>]
            ELSE ParseBody(src, i + 2, Append(cur, src[i + 1]), acc)
  ELSE IF src[i] = "|" THEN ParseBody(src, i + 1, <<>>, Append(acc, cur))
  ELSE IF src[i] \in {"(", ")"} THEN [ok |-> FALSE, alts |-> <<>>]
  ELSE ParseBody(src, i + 1, Append(cur, src[i]), acc)

NewRegExp(ps) ==
  LET src == RegExpSource(ps) IN ParseBody(src, 2, <<>>, <<>>)

MatchesAt(text, i, alt) ==
  /\ i + Len(alt) <= Len(text)
  /\ \A k \in 1..Len(alt) : Canonicalize(text[i + k]) = Canonicalize(alt[k])

(* first alternative that matches at offset i, 0 when none does *)
FirstAlternative(text, i, alts) ==
  IF \E k \in 1..Len(alts) : MatchesAt(text, i, alts[k])
  THEN CHOOSE k \in 1..Len(alts) :
         /\ MatchesAt(text, i, alts[k])
         /\ \A j \in 1..(k - 1) : ~MatchesAt(text, i, alts[j])
  ELSE 0

NoMatch == [found |-> FALSE, index |-> -1, end |-> 0, str |-> <<>>]

(* mutant: the scan resumes one character after the start of a match *)
ExecOverlapping(text, alts, from) ==
  LET hits == {i \in from..(Len(text) - 1) : FirstAlternative(text, i, alts) # 0}
  IN IF hits = {} THEN NoMatch
     ELSE LET i == CHOOSE h \in hits : \A g \in hits : h <= g
              a == alts[FirstAlternative(text, i, alts)]
          IN [found |-> TRUE, index |-> i, end |-> i + 1,
              str |-> SubSeq(text, i + 1, i + Len(a))]

(* regex.exec(text) of a global regex whose lastIndex is from *)
Exec(text, alts, from) ==
  LET hits == {i \in from..(Len(text) - 1) : FirstAlternative(text, i, alts) # 0}
  IN IF hits = {} THEN NoMatch
     ELSE LET i == CHOOSE h \in hits : \A g \in hits : h <= g
              a == alts[FirstAlternative(text, i, alts)]
          IN [found |-> TRUE, index |-> i, end |-> i + Len(a),
              str |-> SubSeq(text, i + 1, i + Len(a))]

(* mutant: the regex has no capture group, the matches are dropped *)
RECURSIVE SplitAtNoCapture(_, _, _)
SplitAtNoCapture(text, alts, p) ==
  LET m == Exec(text, alts, p)
  IN IF ~m.found THEN <<SubSeq(text, p + 1, Len(text))>>
     ELSE <<SubSeq(text, p + 1, m.index)>> \o SplitAtNoCapture(text, alts, m.end)

(* text.split(regex) where regex has one capture group around the whole  *)
(* alternation: the pieces between matches, each followed by the capture *)
RECURSIVE SplitAt(_, _, _)
SplitAt(text, alts, p) ==
  LET m == Exec(text, alts, p)
  IN IF ~m.found THEN <<SubSeq(text, p + 1, Len(text))>>
     ELSE <<SubSeq(text, p + 1, m.index), m.str>> \o SplitAt(text, alts, m.end)

StringSplit(text, alts) == SplitAt(text, alts, 0)

----------------------------------------------------------------------------
(* highlightText *)

RECURSIVE PartStart(_, _)
PartStart(parts, i) ==
  IF i = 1 THEN 0 ELSE PartStart(parts, i - 1) + Len(parts[i - 1])

PlainSpan(part) == [text |-> part, family |-> "none", key |-> -1]

(* mutant: the secondary family is checked before the primary one *)
ClassifySecondaryFirst(part, partStart, term, secondaryTerm) ==
  LET partLower == toLowerCase(part)
  IN IF secondaryTerm # <<>>
        /\ (partLower = toLowerCase(secondaryTerm)
            \/ partLower \in WordSet(secondaryTerm))
     THEN [text |-> part, family |-> "secondary", key |-> partStart]
     ELSE IF term # <<>>
             /\ (partLower = toLowerCase(term) \/ partLower \in WordSet(term))
     THEN [text |-> part, family |-> "primary", key |-> partStart]
     ELSE PlainSpan(part)

Classify(part, partStart, term, secondaryTerm) ==
  LET partLower == toLowerCase(part)
  IN IF term # <<>> /\ (partLower = toLowerCase(term) \/ partLower \in WordSet(term))
     THEN [text |-> part, family |-> "primary", key |-> partStart]
     ELSE IF secondaryTerm # <<>>
             /\ (partLower = toLowerCase(secondaryTerm)
                 \/ partLower \in WordSet(secondaryTerm))
     THEN [text |-> part, family |-> "secondary", key |-> partStart]
     ELSE PlainSpan(part)

highlightText(text, term, secondaryTerm) ==
  IF term = <<>> /\ secondaryTerm = <<>>
  THEN [spans |-> <<PlainSpan(text)>>, caught |-> FALSE]
  ELSE LET splitRegex == NewRegExp(patterns(term, secondaryTerm))
       IN IF ~splitRegex.ok
          THEN [spans |-> <<PlainSpan(text)>>, caught |-> TRUE]
          ELSE LET parts == StringSplit(text, splitRegex.alts)
               IN [spans |-> [i \in 1..Len(parts) |->
                                Classify(parts[i], PartStart(parts, i),
                                         term, secondaryTerm)],
                   caught |-> FALSE]

SpanKeys(spans) ==
  {spans[i].key : i \in {j \in 1..Len(spans) : spans[j].family # "none"}}

----------------------------------------------------------------------------
(* Match-position effect *)

MatchPosition(m, type, textLength) ==
  [index |-> m.index, term |-> m.str, type |-> type,
   percentage |-> [num |-> m.index * 100, den |-> textLength]]

RECURSIVE ScanFrom(_, _, _, _)
ScanFrom(text, alts, type, from) ==
  LET m == Exec(text, alts, from)
  IN IF ~m.found THEN <<>>
     ELSE <<MatchPosition(m, type, Len(text))>> \o ScanFrom(text, alts, type, m.end)

(* mutant: an element goes before the elements of equal index *)
RECURSIVE InsertBeforeEqual(_, _)
InsertBeforeEqual(sorted, e) ==
  IF sorted = <<>> THEN <<e>>
  ELSE IF sorted[Len(sorted)].index - e.index >= 0
       THEN Append(InsertBeforeEqual(SubSeq(sorted, 1, Len(sorted) - 1), e),
                   sorted[Len(sorted)])
       ELSE Append(sorted, e)

(* Array.prototype.sort with (a, b) => a.index - b.index: a stable sort *)
RECURSIVE InsertByIndex(_, _)
InsertByIndex(sorted, e) ==
  IF sorted = <<>> THEN <<e>>
  ELSE IF sorted[Len(sorted)].index - e.index > 0
       THEN Append(InsertByIndex(SubSeq(sorted, 1, Len(sorted) - 1), e),
                   sorted[Len(sorted)])
       ELSE Append(sorted, e)

RECURSIVE SortByIndex(_)
SortByIndex(ps) ==
  IF ps = <<>> THEN <<>>
  ELSE InsertByIndex(SortByIndex(SubSeq(ps, 1, Len(ps) - 1)), ps[Len(ps)])

(* lines 70-121 as one function of the effect's dependencies; every     *)
(* pattern is escaped, so new RegExp does not throw here                *)
ComputePositions(text, term, secondaryTerm) ==
  LET pp == primaryPatterns(term)
      sp == secondaryPatterns(secondaryTerm)
      prim == IF Len(pp) > 0 THEN ScanFrom(text, NewRegExp(pp).alts, "primary", 0)
              ELSE <<>>
      sec == IF Len(sp) > 0 THEN ScanFrom(text, NewRegExp(sp).alts, "secondary", 0)
             ELSE <<>>
  IN SortByIndex(prim \o sec)

----------------------------------------------------------------------------
(* Component state and the data-access collaborator *)

DocIds == {"A", "B"}

NoDocument == "null"
NoError == <<>>

(* what fetchDocumentText(id) resolves to *)
DocText == [id \in DocIds |->
              IF id = "A" THEN <<"o","o","f","f">> ELSE <<>>]

LifePhrases == { <<>>, <<"o","o","f">>, <<"o","f","f">> }

NotRendered == [spans |-> <<>>, caught |-> FALSE]

EffectsIdle == ~loadEffectPending /\ ~matchEffectPending

renderVars == <<matchRefs, rendered>>
scanVars == <<pc, regex, lastIndex, positions>>
propVars == <<docId, highlightTerm, secondaryHighlightTerm>>

(* useState initial values, first render committed, both effects queued *)
Init ==
  /\ docId \in DocIds
  /\ highlightTerm \in LifePhrases
  /\ secondaryHighlightTerm \in LifePhrases
  /\ document = NoDocument
  /\ documentText = <<>>
  /\ loading = TRUE
  /\ error = NoError
  /\ matchPositions = <<>>
  /\ matchRefs = {}
  /\ rendered = NotRendered
  /\ loads = {}
  /\ started = 0
  /\ loadEffectPending = TRUE
  /\ matchEffectPending = TRUE
  /\ pc = "idle"
  /\ regex = <<>>
  /\ lastIndex = 0
  /\ positions = <<>>

(* useEffect(..., [docId]): loadDocument up to its await *)
RunLoadEffect ==
  /\ loadEffectPending
  /\ loading' = TRUE
  /\ error' = NoError
  /\ loads' = loads \cup {[seq |-> started + 1, id |-> docId,
                           doc |-> "pending", text |-> "pending"]}
  /\ started' = started + 1
  /\ loadEffectPending' = FALSE
  /\ UNCHANGED <<propVars, document, documentText, matchPositions,
                 matchEffectPending, renderVars, scanVars>>

(* loadDocument after the await, both fetches fulfilled *)
LoadFulfilled(l) ==
  /\ document' = l.id
  /\ documentText' = DocText[l.id]
  /\ loading' = FALSE
  /\ matchEffectPending' = (DocText[l.id] # documentText)
  /\ loads' = loads \ {l}
  /\ UNCHANGED <<propVars, error, matchPositions, started, loadEffectPending,
                 renderVars, scanVars>>

(* loadDocument after the await, Promise.all rejected *)
LoadRejected(l, which) ==
  /\ error' = <<which, l.id>>
  /\ loading' = FALSE
  /\ loads' = loads \ {l}
  /\ UNCHANGED <<propVars, document, documentText, matchPositions, started,
                 loadEffectPending, matchEffectPending, renderVars, scanVars>>

FetchPending(l, f) ==
  /\ loads' = (loads \ {l}) \cup {[l EXCEPT ![f] = "ok"]}
  /\ UNCHANGED <<propVars, document, documentText, loading, error,
                 matchPositions, started, loadEffectPending,
                 matchEffectPending, renderVars, scanVars>>

FetchDocumentResolves(l) ==
  /\ EffectsIdle
  /\ l \in loads /\ l.doc = "pending"
  /\ IF l.text = "ok" THEN LoadFulfilled(l) ELSE FetchPending(l, "doc")

FetchDocumentTextResolves(l) ==
  /\ EffectsIdle
  /\ l \in loads /\ l.text = "pending"
  /\ IF l.doc = "ok" THEN LoadFulfilled(l) ELSE FetchPending(l, "text")

FetchDocumentRejects(l) ==
  /\ EffectsIdle
  /\ l \in loads /\ l.doc = "pending"
  /\ LoadRejected(l, "fetchDocument")

FetchDocumentTextRejects(l) ==
  /\ EffectsIdle
  /\ l \in loads /\ l.text = "pending"
  /\ LoadRejected(l, "fetchDocumentText")

(* the parent renders the modal with another docId *)
ChangeDocId(d) ==
  /\ EffectsIdle
  /\ d # docId
  /\ started < MaxLoads
  /\ docId' = d
  /\ loadEffectPending' = TRUE
  /\ UNCHANGED <<highlightTerm, secondaryHighlightTerm, document, documentText,
                 loading, error, matchPositions, loads, started,
                 matchEffectPending, renderVars, scanVars>>

(* the parent renders the modal with other search terms *)
ChangeTerms(t, s) ==
  /\ EffectsIdle
  /\ <<t, s>> # <<highlightTerm, secondaryHighlightTerm>>
  /\ highlightTerm' = t
  /\ secondaryHighlightTerm' = s
  /\ matchEffectPending' = TRUE
  /\ UNCHANGED <<docId, document, documentText, loading, error, matchPositions,
                 loads, started, loadEffectPending, renderVars, scanVars>>

(* useEffect(..., [documentText, highlightTerm, secondaryHighlightTerm]) *)
RunMatchEffect ==
  /\ matchEffectPending
  /\ ~loadEffectPending
  /\ matchPositions' =
       IF documentText = <<>> THEN matchPositions
       ELSE ComputePositions(documentText, highlightTerm, secondaryHighlightTerm)
  /\ matchEffectPending' = FALSE
  /\ UNCHANGED <<propVars, document, documentText, loading, error, loads,
                 started, loadEffectPending, renderVars, scanVars>>

Next ==
  \/ RunLoadEffect
  \/ RunMatchEffect
  \/ \E l \in loads : FetchDocumentResolves(l)
  \/ \E l \in loads : FetchDocumentTextResolves(l)
  \/ \E l \in loads : FetchDocumentRejects(l)
  \/ \E l \in loads : FetchDocumentTextRejects(l)
  \/ \E d \in DocIds : ChangeDocId(d)
  \/ \E t \in LifePhrases, s \in LifePhrases : ChangeTerms(t, s)

Spec == Init /\ [][Next]_vars

(* what the render shows: header (lines 225-246), content (270-280) and  *)
(* scroll indicator (284-300)                                            *)
HeaderShown == document

ContentShown ==
  IF ~loading /\ error = NoError /\ documentText # <<>>
  THEN highlightText(documentText, highlightTerm, secondaryHighlightTerm).spans
  ELSE <<>>

MarkersShown ==
  IF ~loading /\ error = NoError /\ Len(matchPositions) > 0
  THEN matchPositions ELSE <<>>

----------------------------------------------------------------------------
(* highlightText and the match-position effect on arbitrary inputs *)

InitRender ==
  /\ docId = "A"
  /\ highlightTerm \in PhraseSamples
  /\ secondaryHighlightTerm \in PhraseSamples
  /\ document = "A"
  /\ documentText \in Texts
  /\ loading = FALSE
  /\ error = NoError
  /\ matchPositions = <<>>
  /\ matchRefs = {}
  /\ rendered = NotRendered
  /\ loads = {}
  /\ started = 1
  /\ loadEffectPending = FALSE
  /\ matchEffectPending = TRUE
  /\ pc = "idle"
  /\ regex = <<>>
  /\ lastIndex = 0
  /\ positions = <<>>

(* highlightText(documentText, highlightTerm, secondaryHighlightTerm || null) *)
(* and the ref callbacks of the marks it returns                              *)
CallHighlightText ==
  /\ rendered = NotRendered
  /\ rendered' = highlightText(documentText, highlightTerm, secondaryHighlightTerm)
  /\ matchRefs' = matchRefs \cup SpanKeys(rendered'.spans)
  /\ UNCHANGED <<propVars, document, documentText, loading, error,
                 matchPositions, loads, started, loadEffectPending,
                 matchEffectPending, scanVars>>

NextRender == RunMatchEffect \/ CallHighlightText

SpecRender == InitRender /\ [][NextRender]_vars

(* scrollToMatch(index) finds an element to scroll to *)
scrollToMatch(index) == index \in matchRefs

----------------------------------------------------------------------------
(* The match-position effect, one statement at a time *)

(* the modal as mounted: documentText is '' and the effect is queued *)
InitScan ==
  /\ docId = "A"
  /\ highlightTerm \in ScanPhrases
  /\ secondaryHighlightTerm \in ScanPhrases
  /\ document = NoDocument
  /\ documentText = <<>>
  /\ loading = TRUE
  /\ error = NoError
  /\ matchPositions = <<>>
  /\ matchRefs = {}
  /\ rendered = NotRendered
  /\ loads = {}
  /\ started = 1
  /\ loadEffectPending = FALSE
  /\ matchEffectPending = TRUE
  /\ pc = "start"
  /\ regex = <<>>
  /\ lastIndex = 0
  /\ positions = <<>>

(* lines 54-59: the load of the document ends and its text is set *)
TextLoaded(text) ==
  /\ pc = "done"
  /\ loading
  /\ document' = docId
  /\ documentText' = text
  /\ loading' = FALSE
  /\ matchEffectPending' = (text # documentText)
  /\ pc' = IF text # documentText THEN "start" ELSE "done"
  /\ UNCHANGED <<propVars, error, matchPositions, loads, started,
                 loadEffectPending, renderVars, regex, lastIndex, positions>>

scanFixed == <<propVars, document, documentText, loading, error, loads,
               started, loadEffectPending, renderVars>>

(* lines 68-92 *)
EffectStart ==
  /\ pc = "start"
  /\ pc' = IF documentText = <<>> THEN "done" ELSE "primary"
  /\ matchEffectPending' = (documentText # <<>>)
  /\ positions' = <<>>
  /\ UNCHANGED <<scanFixed, matchPositions, regex, lastIndex>>

(* lines 94-95 and 107-108: the regex of a family, if it has patterns;   *)
(* ps is the local array the effect has built                            *)
CompileStep(ps, loopPc, skipPc) ==
  IF Len(ps) > 0
  THEN /\ regex' = NewRegExp(ps).alts
       /\ lastIndex' = 0
       /\ pc' = loopPc
  ELSE /\ UNCHANGED <<regex, lastIndex>>
       /\ pc' = skipPc

(* one evaluation of the loop condition at lines 97 and 110, and the body *)
ExecStep(type, nextPc) ==
  LET m == Exec(documentText, regex, lastIndex)
  IN IF m.found
     THEN /\ positions' = Append(positions, MatchPosition(m, type, Len(documentText)))
          /\ lastIndex' = m.end
          /\ pc' = pc
     ELSE /\ positions' = positions
          /\ lastIndex' = 0
          /\ pc' = nextPc

PrimaryRegExp ==
  /\ pc = "primary"
  /\ \E ps \in {primaryPatterns(highlightTerm)} :
       CompileStep(ps, "primaryLoop", "secondary")
  /\ UNCHANGED <<scanFixed, matchPositions, matchEffectPending, positions>>

PrimaryExec ==
  /\ pc = "primaryLoop"
  /\ ExecStep("primary", "secondary")
  /\ UNCHANGED <<scanFixed, matchPositions, matchEffectPending, regex>>

SecondaryRegExp ==
  /\ pc = "secondary"
  /\ \E ps \in {secondaryPatterns(secondaryHighlightTerm)} :
       CompileStep(ps, "secondaryLoop", "sort")
  /\ UNCHANGED <<scanFixed, matchPositions, matchEffectPending, positions>>

SecondaryExec ==
  /\ pc = "secondaryLoop"
  /\ ExecStep("secondary", "sort")
  /\ UNCHANGED <<scanFixed, matchPositions, matchEffectPending, regex>>

(* lines 120-121 *)
SortAndStore ==
  /\ pc = "sort"
  /\ matchPositions' = SortByIndex(positions)
  /\ matchEffectPending' = FALSE
  /\ pc' = "done"
  /\ UNCHANGED <<scanFixed, regex, lastIndex, positions>>

EffectSteps ==
  \/ EffectStart
  \/ PrimaryRegExp
  \/ PrimaryExec
  \/ SecondaryRegExp
  \/ SecondaryExec
  \/ SortAndStore

NextScan ==
  \/ \E text \in ScanTexts : TextLoaded(text)
  \/ EffectStart
  \/ PrimaryRegExp
  \/ PrimaryExec
  \/ SecondaryRegExp
  \/ SecondaryExec
  \/ SortAndStore

(* the effect is synchronous code: once started it runs to its end *)
SpecScan == InitScan /\ [][NextScan]_vars /\ WF_vars(EffectSteps)

----------------------------------------------------------------------------
(* Properties *)

RECURSIVE ConcatSpans(_)
ConcatSpans(spans) ==
  IF spans = <<>> THEN <<>> ELSE Head(spans).text \o ConcatSpans(Tail(spans))

(* w occurs in s at some offset, ignoring case *)
OccursIn(w, s) ==
  \E i \in 0..(Len(s) - Len(w)) :
    \A k \in 1..Len(w) : toLowerCaseChar(s[i + k]) = toLowerCaseChar(w[k])

(* the spans text.split puts at the capture positions *)
Captured(spans) == {i \in 1..Len(spans) : i % 2 = 0}

Called == rendered # NotRendered

(* C1: the spans highlightText returns, concatenated in order, are the   *)
(* text it was given, for every text and every pair of terms.            *)
C1_SpansCoverText ==
  Called => ConcatSpans(rendered.spans) = documentText

C1_Witness ==
  /\ Called
  /\ Len(rendered.spans) >= 5
  /\ \E i \in 1..Len(rendered.spans) : rendered.spans[i].family = "primary"
  /\ \E i \in 1..Len(rendered.spans) : rendered.spans[i].family = "secondary"

(* C2: a load started for an earlier docId never shows: once the effects *)
(* have run, a settled view holds the metadata and text of the current   *)
(* docId, an error is the error of the current docId's load, and loading *)
(* stays set while the load of the current docId is outstanding.         *)
C2_StaleLoadsDiscarded ==
  EffectsIdle =>
    /\ (~loading /\ error = NoError) =>
         (document = docId /\ documentText = DocText[docId])
    /\ (error # NoError) => error[2] = docId
    /\ (\E l \in loads : l.seq = started) => loading

(* C3: every entry of the match-position list has the offset of a        *)
(* highlighted span of highlightText for the same text and terms, so     *)
(* scrollToMatch finds an element for it.                                *)
C3_MarkersResolveToSpans ==
  (Called /\ ~matchEffectPending) =>
    \A i \in 1..Len(matchPositions) :
      /\ scrollToMatch(matchPositions[i].index)
      /\ matchPositions[i].index \in SpanKeys(rendered.spans)

(* C4: once the match-position effect has run, matchPositions is the     *)
(* list computed from the current text and terms, empty for empty text.  *)
C4_PositionsAreCurrent ==
  EffectsIdle =>
    matchPositions =
      ComputePositions(documentText, highlightTerm, secondaryHighlightTerm)

(* C5: a load one of whose fetches fails ends with loading false and an  *)
(* error set and applies neither its metadata nor its text, and while    *)
(* the error is set no document content of any load is displayed.        *)
C5_FailureShowsNoContent ==
  [][ /\ \A l \in loads :
           \A w \in {"fetchDocument", "fetchDocumentText"} :
             LoadRejected(l, w) =>
               /\ ~loading' /\ error' # NoError
               /\ document' = document /\ documentText' = documentText
      /\ (error' # NoError) =>
           /\ HeaderShown' = NoDocument
           /\ ContentShown' = <<>>
           /\ MarkersShown' = <<>>
    ]_vars

SharedWords == WordSet(highlightTerm) \cap WordSet(secondaryHighlightTerm)

(* C6 as stated: a captured span whose text contains a word of both word *)
(* sets is primary.                                                      *)
C6_ContainingSpanIsPrimary ==
  Called =>
    \A w \in SharedWords : \A i \in Captured(rendered.spans) :
      OccursIn(w, rendered.spans[i].text) => rendered.spans[i].family = "primary"

(* C6 amended: a captured span whose text is, ignoring case, a word of   *)
(* both word sets is primary, never secondary.                           *)
C6_SharedWordIsPrimary ==
  Called =>
    \A w \in SharedWords : \A i \in Captured(rendered.spans) :
      toLowerCase(rendered.spans[i].text) = w
        => rendered.spans[i].family = "primary"

C6_Witness ==
  /\ Called
  /\ highlightTerm # secondaryHighlightTerm
  /\ \E w \in SharedWords : \E i \in Captured(rendered.spans) :
       /\ toLowerCase(rendered.spans[i].text) = w
       /\ rendered.spans[i].text # w

(* the term does not compile when it is not escaped *)
MalformedUnescaped(term) ==
  term # <<>> /\ ~ParseBody(<<"(">> \o term \o <<")">>, 2, <<>>, <<>>).ok

OccursSomeAlternative(term, text) ==
  \/ OccursIn(term, text)
  \/ \E w \in WordSet(term) : OccursIn(w, text)

(* C7 as stated: for a term that is malformed when unescaped the result  *)
(* is the whole text as one plain span, whatever the text.               *)
C7_MetaTermGivesPlainText ==
  (Called /\ MalformedUnescaped(highlightTerm) /\ secondaryHighlightTerm = <<>>)
    => rendered.spans = <<PlainSpan(documentText)>>

(* C7 amended: for such a term highlightText does not throw and does not *)
(* take its fallback; the result is the whole text as one plain span     *)
(* exactly when the text has no occurrence of the term or of one of its  *)
(* words, and a text that contains the term has a primary span.          *)
C7_MetaTermIsLiteral ==
  (Called /\ MalformedUnescaped(highlightTerm) /\ secondaryHighlightTerm = <<>>)
    => /\ ~rendered.caught
       /\ (rendered.spans = <<PlainSpan(documentText)>>)
            <=> ~OccursSomeAlternative(highlightTerm, documentText)
       /\ OccursIn(highlightTerm, documentText) =>
            \E i \in 1..Len(rendered.spans) : rendered.spans[i].family = "primary"

C7_Witness ==
  /\ Called
  /\ MalformedUnescaped(highlightTerm) /\ secondaryHighlightTerm = <<>>
  /\ OccursIn(highlightTerm, documentText)
  /\ Len(rendered.spans) = 5

(* the words of a phrase: its maximal runs of non-whitespace, by start   *)
IsWordAt(phrase, i, j) ==
  /\ i <= j
  /\ \A k \in i..j : phrase[k] \notin WhiteSpace
  /\ (i = 1 \/ phrase[i - 1] \in WhiteSpace)
  /\ (j = Len(phrase) \/ phrase[j + 1] \in WhiteSpace)

WordEnd(phrase, i) == CHOOSE j \in i..Len(phrase) : IsWordAt(phrase, i, j)

SignificantStarts(phrase) ==
  {i \in 1..Len(phrase) :
     /\ \E j \in i..Len(phrase) : IsWordAt(phrase, i, j)
     /\ WordEnd(phrase, i) - i + 1 >= 3
     /\ toLowerCase(SubSeq(phrase, i, WordEnd(phrase, i))) \notin commonWords}

RECURSIVE WordsFrom(_, _)
WordsFrom(phrase, starts) ==
  IF starts = {} THEN <<>>
  ELSE LET i == CHOOSE a \in starts : \A b \in starts : a <= b
       IN <<SubSeq(phrase, i, WordEnd(phrase, i))>>
          \o WordsFrom(phrase, starts \ {i})

ExpectedAlternatives(phrase) ==
  IF phrase = <<>> THEN <<>>
  ELSE <<phrase>> \o WordsFrom(phrase, SignificantStarts(phrase))

(* C8: the alternatives of a family are the whole phrase followed by its *)
(* words of length at least 3 that are not stopwords, in order, and the  *)
(* effect and highlightText build the same alternatives.                 *)
C8_AlternativesOfPhrase ==
  Called =>
    /\ highlightTerm # <<>> =>
         NewRegExp(primaryPatterns(highlightTerm)).alts
           = ExpectedAlternatives(highlightTerm)
    /\ secondaryHighlightTerm # <<>> =>
         NewRegExp(secondaryPatterns(secondaryHighlightTerm)).alts
           = ExpectedAlternatives(secondaryHighlightTerm)
    /\ patterns(highlightTerm, secondaryHighlightTerm)
         = primaryPatterns(highlightTerm) \o secondaryPatterns(secondaryHighlightTerm)
    /\ (highlightTerm # <<>> \/ secondaryHighlightTerm # <<>>) =>
         NewRegExp(patterns(highlightTerm, secondaryHighlightTerm)).alts
           = ExpectedAlternatives(highlightTerm)
               \o ExpectedAlternatives(secondaryHighlightTerm)

C8_Witness ==
  /\ Called
  /\ Len(SplitWhitespace(highlightTerm)) = 3
  /\ Len(primaryPatterns(highlightTerm)) = 2
  /\ Len(secondaryPatterns(secondaryHighlightTerm)) = 1
  /\ toLowerCase(secondaryHighlightTerm) \in commonWords

OfType(type) == SelectSeq(positions, LAMBDA e : e.type = type)

ScanOrdered(occ) ==
  /\ \A i \in 1..Len(occ) : occ[i].index >= 0 /\ occ[i].index < Len(documentText)
  /\ \A i \in 1..(Len(occ) - 1) :
       /\ occ[i].index < occ[i + 1].index
       /\ occ[i].index + Len(occ[i].term) <= occ[i + 1].index

(* C9: the occurrences each scan loop produces have strictly increasing, *)
(* non-overlapping offsets inside the text, and the loops terminate.     *)
C9_ScanOrderedAndTerminates ==
  /\ [](ScanOrdered(OfType("primary")) /\ ScanOrdered(OfType("secondary")))
  /\ [](pc # "done" => <>(pc = "done"))

C9_Witness ==
  /\ pc = "done"
  /\ Len(OfType("primary")) >= 2
  /\ Len(OfType("secondary")) >= 2

CountOf(seq, e) == Cardinality({i \in 1..Len(seq) : seq[i] = e})

(* C10: the stored list holds every occurrence the two loops found, in   *)
(* ascending offset order, primary before secondary at equal offsets.    *)
C10_SortedPrimaryFirst ==
  (pc = "done" /\ documentText # <<>>) =>
    /\ Len(matchPositions) = Len(positions)
    /\ \A i \in 1..Len(positions) :
         CountOf(matchPositions, positions[i]) = CountOf(positions, positions[i])
    /\ \A i \in 1..Len(matchPositions) : \A j \in (i + 1)..Len(matchPositions) :
         /\ matchPositions[i].index <= matchPositions[j].index
         /\ matchPositions[i].index = matchPositions[j].index =>
              ~(matchPositions[i].type = "secondary"
                /\ matchPositions[j].type = "primary")

C10_Witness ==
  /\ pc = "done"
  /\ \E i \in 1..(Len(matchPositions) - 1) :
       /\ matchPositions[i].index = matchPositions[i + 1].index
       /\ matchPositions[i].type = "primary"
       /\ matchPositions[i + 1].type = "secondary"
  /\ \E i \in 1..(Len(positions) - 1) :
       positions[i].index > positions[i + 1].index

====
